---- MODULE Spec2Model ----
(***************************************************************************)
(* A model of the mapbox geocoding client (package mapbox).                *)
(*                                                                         *)
(* Go strings and byte slices are sequences of atoms: "" is <<>>, string   *)
(* concatenation and every buf.Write* call is \o, so a rendered URI is the *)
(* sequence of the pieces the code wrote, in the order it wrote them.      *)
(* A nil pointer / nil interface / nil func is the empty sequence and a    *)
(* non-nil one is a one-element sequence holding the value.                *)
(***************************************************************************)
EXTENDS Integers, Sequences, FiniteSets, TLC

VARIABLES
    env,       \* the environment variable MAPBOX_ACCESS_TOKEN: Nil when unset
    opts,      \* the options NewFastHttpGeocoder was called with
    built,     \* TRUE once NewFastHttpGeocoder has returned
    geocoder,  \* the FastHttpGeocoder: the embedded config and geocodeAPIURL
    bufs,      \* content of every bytes.Buffer the pool's New has created
    pool,      \* buffers resting in stringBufPull's sync.Pool
    respPool,  \* fasthttp.Response objects resting in fasthttp's response pool
    calls      \* per caller: the position and locals of its geocode call

vars == <<env, opts, built, geocoder, bufs, pool, respPool, calls>>

-----------------------------------------------------------------------------
(* Bounds of the model. *)

NCallers == 2      \* goroutines sharing the Geocoder
MaxBufs == 2       \* buffers alive at once (held or pooled)
MaxResps == 2      \* fasthttp.Response objects alive at once (held or pooled)
MaxOpts == 3       \* options passed to NewFastHttpGeocoder
MaxSet == 1        \* optional request fields that differ from their zero value
MaxTypes == 2      \* feature types in a request
MaxQuery == 3      \* elements of the query array in a response body
MaxFeatures == 2   \* features in a response body

Callers == 1..NCallers
BufIds == 1..MaxBufs
RespIds == 1..MaxResps

-----------------------------------------------------------------------------
(* Constants of the program. *)

limit == "limit"
types == "types"
country == "country"
language == "language"
reverseMode == "reverseMode"
autocomplete == "autocomplete"
fuzzymatch == "fuzzymatch"
bbox == "bbox"
proximity == "proximity"
routing == "routing"
trueStr == <<"true">>
falseStr == <<"false">>
oneStr == <<"1">>
access_token == "access_token"
responseFormatJSON == <<".json">>
getMethod == <<"GET">>
respHeaderRateLimitInterval == "X-Rate-Limit-Interval"
respHeaderRateLimitLimit == "X-Rate-Limit-Limit"
respHeaderRateLimitReset == "X-Rate-Limit-Reset"
slash == "/"
comma == ","
questionMark == "?"
equalMark == "="
ampersandMark == "&"
defaultAPI == <<"https://api.mapbox.com">>
StatusOK == 200

Nil == <<>>
Some(x) == <<x>>

-----------------------------------------------------------------------------
(* Configuration. *)

\* The two loggers of the model and the resolver a RequestLogger option carries:
\* it returns the logger the request context holds, nil when it holds none.
StaticLogger == "staticLogger"
CtxLogger == "ctxLogger"
Contexts == {[logger |-> Nil], [logger |-> Some(CtxLogger)]}
FromContext == "fromContext"
Resolve(extract, ctx) == ctx.logger

newConfig ==
    [accessToken |-> <<>>,
     rootAPI |-> defaultAPI,
     client |-> "fasthttp.Client",
     logger |-> Nil,
     requestLogger |-> Nil,
     accessTokenGetValue |-> <<>>,
     geocodeEndpoint |-> <<"mapbox.places">>]

\* An Option is the field it sets with the value it was built from.
Log(l) == [option |-> "Log", arg |-> Some(l)]
RequestLogger(extract) == [option |-> "RequestLogger", arg |-> Some(extract)]
AccessToken(at) == [option |-> "AccessToken", arg |-> at]
RootAPI(rootAPI) == [option |-> "RootAPI", arg |-> rootAPI]
HttpClient(c) == [option |-> "HttpClient", arg |-> c]
GeocodeEndpoint(endpoint) == [option |-> "GeocodeEndpoint", arg |-> endpoint]

ApplyOption(o, c) ==
    CASE o.option = "Log" -> [c EXCEPT !.logger = o.arg]
      [] o.option = "RequestLogger" -> [c EXCEPT !.requestLogger = o.arg]
      [] o.option = "AccessToken" -> [c EXCEPT !.accessToken = o.arg]
      [] o.option = "RootAPI" -> [c EXCEPT !.rootAPI = o.arg]
      [] o.option = "HttpClient" -> [c EXCEPT !.client = o.arg]
      [] o.option = "GeocodeEndpoint" -> [c EXCEPT !.geocodeEndpoint = o.arg]

\* A loop that applies the options from the last to the first.
RECURSIVE ApplyOptions_rightToLeft(_, _)
ApplyOptions_rightToLeft(os, c) ==
    IF os = <<>> THEN c
    ELSE ApplyOption(Head(os), ApplyOptions_rightToLeft(Tail(os), c))

\* for _, o := range opts { c.config = o(c.config) }
RECURSIVE ApplyOptions(_, _)
ApplyOptions(os, c) ==
    IF os = <<>> THEN c
    ELSE ApplyOptions(Tail(os), ApplyOption(Head(os), c))

\* A withEnv that lets an explicit AccessToken option win over the environment.
withEnv_optionWins(c, at) ==
    IF at # <<>> /\ c.accessToken = <<>> THEN [c EXCEPT !.accessToken = at] ELSE c

withEnv(c, at) ==
    IF at # <<>> THEN [c EXCEPT !.accessToken = at] ELSE c

prepare(c) ==
    [c EXCEPT !.accessTokenGetValue =
        <<questionMark>> \o <<access_token>> \o <<equalMark>> \o c.accessToken]

\* The struct NewFastHttpGeocoder returns: the config fields and geocodeAPIURL.
WithURL(c, url) ==
    [accessToken |-> c.accessToken,
     rootAPI |-> c.rootAPI,
     client |-> c.client,
     logger |-> c.logger,
     requestLogger |-> c.requestLogger,
     accessTokenGetValue |-> c.accessTokenGetValue,
     geocodeEndpoint |-> c.geocodeEndpoint,
     geocodeAPIURL |-> url]

Construct(os, at) ==
    LET c0 == ApplyOptions(os, newConfig)
        c1 == withEnv(c0, at)
        c2 == prepare(c1)
    IN  WithURL(c2, c2.rootAPI \o <<"/geocoding/v5/">> \o c2.geocodeEndpoint \o <<slash>>)

\* All sequences over S of length at most n.
RECURSIVE SeqsUpTo(_, _)
SeqsUpTo(S, n) ==
    IF n = 0 THEN {<<>>}
    ELSE LET shorter == SeqsUpTo(S, n - 1)
         IN  shorter \cup {Append(s, x) : s \in {t \in shorter : Len(t) = n - 1}, x \in S}

Tokens == {<<"tokA">>, <<"tokB">>}
EnvValues == {Nil, Some(<<>>), Some(<<"tokEnv">>)}

\* os.Getenv(name): the value, "" when the variable is not set.
Getenv(e) == IF e = Nil THEN <<>> ELSE e[1]

AllOptions ==
    {AccessToken(t) : t \in Tokens \cup {<<>>}}
        \cup {RootAPI(<<"http://localhost">>), RootAPI(<<"http://127.0.0.1:8080">>),
              GeocodeEndpoint(<<"mapbox.places-permanent">>),
              HttpClient("mockClient"), Log(StaticLogger), RequestLogger(FromContext)}

\* Every choice of loggers, the resolver given before or after the static logger.
LoggerOptionLists ==
    {<<>>, <<Log(StaticLogger)>>, <<RequestLogger(FromContext)>>,
     <<Log(StaticLogger), RequestLogger(FromContext)>>,
     <<RequestLogger(FromContext), Log(StaticLogger)>>}

\* NewFastHttpGeocoder(opts...), with the pool created empty.
NewFastHttpGeocoder(optionLists) ==
    /\ ~built
    /\ \E os \in optionLists :
           /\ opts' = os
           /\ geocoder' = Construct(os, Getenv(env))
    /\ built' = TRUE
    /\ pool' = {}
    /\ UNCHANGED <<env, bufs, respPool, calls>>

-----------------------------------------------------------------------------
(* Formatting. *)

\* strings.Join(elems, sep)
RECURSIVE Join(_, _)
Join(elems, sep) ==
    IF elems = <<>> THEN <<>>
    ELSE IF Len(elems) = 1 THEN elems[1]
    ELSE elems[1] \o <<sep>> \o Join(Tail(elems), sep)

\* strconv.Itoa(n)
Itoa(n) == <<ToString(n)>>

\* fmt.Sprint(b) of a bool
SprintBool(b) == IF b THEN <<"true">> ELSE <<"false">>

Pad6(n) ==
    IF n < 10 THEN "00000" \o ToString(n)
    ELSE IF n < 100 THEN "0000" \o ToString(n)
    ELSE IF n < 1000 THEN "000" \o ToString(n)
    ELSE IF n < 10000 THEN "00" \o ToString(n)
    ELSE IF n < 100000 THEN "0" \o ToString(n)
    ELSE ToString(n)

\* strconv.FormatFloat(x, 'f', 6, 64) and fmt's %f. A float64 is modelled by the
\* integer number of 1e-7 degrees it holds; the result has six digits after the
\* point, rounded to nearest.
FormatFloat(x) ==
    LET mag == IF x < 0 THEN 0 - x ELSE x
        micro == (mag + 5) \div 10
    IN  <<(IF x < 0 THEN "-" ELSE "") \o ToString(micro \div 1000000) \o "."
            \o Pad6(micro % 1000000)>>

-----------------------------------------------------------------------------
(* Requests. *)

Lincoln == [Lon |-> -770501629, Lat |-> 388892227]
Poi == <<"poi">>
Address == <<"address">>
TypeLists == SeqsUpTo({Poi, Address}, MaxTypes)

Count(b) == IF b THEN 1 ELSE 0

ReverseNonZero(r) ==
    Count(r.Limit # 0) + Count(r.Types # <<>>) + Count(r.Country # <<>>)
        + Count(r.Language # <<>>) + Count(r.ReverseMode # 0) + Count(r.Routing)

ReverseGeocodeRequests ==
    {r \in [GeoPoint : {Lincoln},
            Limit : {0, 5},
            Types : TypeLists,
            Country : {<<>>, <<"us">>},
            Language : {<<>>, <<"en">>},
            ReverseMode : {0, 1, 2},
            Routing : BOOLEAN] : ReverseNonZero(r) <= MaxSet}

ForwardNonZero(r) ==
    Count(r.Autocomplete # Nil) + Count(r.Bbox # <<>>) + Count(r.Country # <<>>)
        + Count(r.FuzzyMatch # Nil) + Count(r.Language # <<>>) + Count(r.Limit # 0)
        + Count(r.Proximity # Nil) + Count(r.Routing) + Count(r.Types # <<>>)

ForwardGeocodeRequests ==
    {r \in [SearchText : {<<"lincoln%20memorial">>},
            Autocomplete : {Nil, Some(TRUE), Some(FALSE)},
            Bbox : {<<>>, <<-770600000, 388800000, -770100000, 388900000>>,
                    <<-770600000, 388800000>>},
            Country : {<<>>, <<"us">>},
            FuzzyMatch : {Nil, Some(TRUE), Some(FALSE)},
            Language : {<<>>, <<"en">>},
            Limit : {0, 5},
            Proximity : {Nil, Some(Lincoln)},
            Routing : BOOLEAN,
            Types : TypeLists] : ForwardNonZero(r) <= MaxSet}

ZeroReverse ==
    [GeoPoint |-> Lincoln, Limit |-> 0, Types |-> <<>>, Country |-> <<>>,
     Language |-> <<>>, ReverseMode |-> 0, Routing |-> FALSE]

ZeroForward ==
    [SearchText |-> <<"lincoln%20memorial">>, Autocomplete |-> Nil, Bbox |-> <<>>,
     Country |-> <<>>, FuzzyMatch |-> Nil, Language |-> <<>>, Limit |-> 0,
     Proximity |-> Nil, Routing |-> FALSE, Types |-> <<>>]

-----------------------------------------------------------------------------
(* The filter mapping and its encoding. *)

\* A Go map[string]string is a function from the keys it holds to their values.
EmptyMap == [k \in {} |-> <<>>]
Put(m, k, v) == [x \in DOMAIN m \cup {k} |-> IF x = k THEN v ELSE m[x]]
PutIf(cond, m, k, v) == IF cond THEN Put(m, k, v) ELSE m

\* A ReverseTypes that sends the first type only.
ReverseTypes_firstOnly(m, ts) ==
    PutIf(Len(ts) > 0, m, types, ts[1])

\* The types entry of ReverseGeocode's values.
ReverseTypes(m, ts) ==
    PutIf(Len(ts) > 0, m, types, Join(ts, comma))

\* A reverse mode entry for every non-zero mode instead of for mode 1 only.
ReverseMode_nonZero(m, mode) ==
    PutIf(mode # 0, m, reverseMode, oneStr)

\* if req.ReverseMode == 1 { values[reverseMode] = oneStr }
ReverseMode(m, mode) ==
    PutIf(mode = 1, m, reverseMode, oneStr)

ReverseValues(req) ==
    LET v1 == PutIf(req.Country # <<>>, EmptyMap, country, req.Country)
        v2 == PutIf(req.Limit # 0, v1, limit, Itoa(req.Limit))
        v3 == PutIf(req.Language # <<>>, v2, language, req.Language)
        v4 == PutIf(req.Routing, v3, routing, trueStr)
        v5 == ReverseMode(v4, req.ReverseMode)
    IN  ReverseTypes(v5, req.Types)

\* A TriState that tests the pointer only and never reads the caller's value.
TriState_ignoresValue(m, k, p) == Put(m, k, trueStr)

\* A TriState that leaves an unset field out of the mapping.
TriState_omitsUnset(m, k, p) ==
    IF p # Nil THEN Put(m, k, SprintBool(p[1])) ELSE m

\* The autocomplete and fuzzymatch entries: the caller's value, true when unset.
TriState(m, k, p) ==
    IF p # Nil THEN Put(m, k, SprintBool(p[1])) ELSE Put(m, k, trueStr)

ForwardValues(req) ==
    LET v1 == PutIf(req.Country # <<>>, EmptyMap, country, req.Country)
        v2 == PutIf(req.Limit # 0, v1, limit, Itoa(req.Limit))
        v3 == PutIf(req.Language # <<>>, v2, language, req.Language)
        v4 == PutIf(req.Routing, v3, routing, trueStr)
        v5 == TriState(v4, autocomplete, req.Autocomplete)
        v6 == TriState(v5, fuzzymatch, req.FuzzyMatch)
        v7 == PutIf(Len(req.Bbox) = 4, v6, bbox,
                    Join(<<FormatFloat(req.Bbox[1]), FormatFloat(req.Bbox[2]),
                           FormatFloat(req.Bbox[3]), FormatFloat(req.Bbox[4])>>, comma))
        v8 == PutIf(req.Proximity # Nil, v7, proximity,
                    Join(<<FormatFloat(req.Proximity[1].Lon),
                           FormatFloat(req.Proximity[1].Lat)>>, comma))
        v9 == Put(v8, routing, SprintBool(req.Routing))
    IN  PutIf(Len(req.Types) > 0, v9, types, Join(req.Types, comma))

\* An encodeHttpGetKeyValue without the WriteByte(ampersandMark).
encodeHttpGetKeyValue_noAmpersand(buf, k, v) ==
    buf \o <<k>> \o <<equalMark>> \o v

encodeHttpGetKeyValue(buf, k, v) ==
    buf \o <<ampersandMark>> \o <<k>> \o <<equalMark>> \o v

\* encodeValues(buf, values, valuesMulti). Go ranges over a map in an order it does
\* not specify: order and orderMulti are the orders this run of the loops takes.
RECURSIVE EncodeSingle(_, _, _)
EncodeSingle(buf, values, order) ==
    IF order = <<>> THEN buf
    ELSE EncodeSingle(encodeHttpGetKeyValue(buf, Head(order), values[Head(order)]),
                      values, Tail(order))

RECURSIVE EncodeList(_, _, _)
EncodeList(buf, k, vs) ==
    IF vs = <<>> THEN buf
    ELSE EncodeList(encodeHttpGetKeyValue(buf, k, Head(vs)), k, Tail(vs))

RECURSIVE EncodeMulti(_, _, _)
EncodeMulti(buf, valuesMulti, orderMulti) ==
    IF orderMulti = <<>> THEN buf
    ELSE EncodeMulti(EncodeList(buf, Head(orderMulti), valuesMulti[Head(orderMulti)]),
                     valuesMulti, Tail(orderMulti))

encodeValues(buf, values, order, valuesMulti, orderMulti) ==
    EncodeMulti(EncodeSingle(buf, values, order), valuesMulti, orderMulti)

\* The orders a range over a map with these keys can take.
RECURSIVE Orders(_)
Orders(keys) ==
    IF keys = {} THEN {<<>>}
    ELSE UNION {{<<k>> \o o : o \in Orders(keys \ {k})} : k \in keys}

\* What ReverseGeocode writes before the filters.
ReverseHead(c, req) ==
    c.geocodeAPIURL \o FormatFloat(req.GeoPoint.Lon) \o <<comma>>
        \o FormatFloat(req.GeoPoint.Lat) \o responseFormatJSON \o c.accessTokenGetValue

\* What ForwardGeocode writes before the filters.
ForwardHead(c, req) ==
    c.geocodeAPIURL \o req.SearchText \o responseFormatJSON \o c.accessTokenGetValue

-----------------------------------------------------------------------------
(* The transport and the response body. *)

\* A response body is the sequence of its JSON tokens: "{", then fields, each a
\* key token followed by the tokens of its array value, then "}".
QueryKey == "\"query\":"
FeaturesKey == "\"features\":"
TypeKey == "\"type\":"
BodyKeys == {QueryKey, FeaturesKey, TypeKey}
NumberTokens == {"-77.05", "38.889"}
FeatureTokens == {"address.6707678235122794", "neighborhood.295198"}

\* The float64 a JSON number token decodes to, in units of 1e-7.
ParseFloat(tok) == IF tok = "-77.05" THEN -770500000 ELSE 388890000

Ramp(n) == [i \in 1..n |-> IF i % 2 = 1 THEN "-77.05" ELSE "38.889"]
FeatureList(n) ==
    [i \in 1..n |-> IF i % 2 = 1 THEN "address.6707678235122794" ELSE "neighborhood.295198"]

Document(withQuery, q, f) ==
    <<"{", TypeKey, "FeatureCollection">>
        \o (IF withQuery THEN <<QueryKey>> \o q ELSE <<>>)
        \o <<FeaturesKey>> \o f \o <<"}">>

JsonBodies ==
    {Document(TRUE, Ramp(n), FeatureList(m)) : n \in 0..MaxQuery, m \in 0..MaxFeatures}
        \cup {Document(FALSE, <<>>, FeatureList(MaxFeatures))}

Garbage == <<"<html>Too Many Requests</html>">>
\* A query array whose elements are not numbers.
BadQuery == <<"{", QueryKey, "lincoln", FeaturesKey, "}">>

Bodies == JsonBodies \cup {Garbage, BadQuery}

\* The tokens of the value of field key in body b (after "{"), and whether the
\* field is present.
RECURSIVE FieldFrom(_, _, _, _)
FieldFrom(b, key, i, inside) ==
    IF i > Len(b) \/ b[i] = "}" THEN <<>>
    ELSE IF b[i] \in BodyKeys THEN FieldFrom(b, key, i + 1, b[i] = key)
    ELSE IF inside THEN <<b[i]>> \o FieldFrom(b, key, i + 1, inside)
    ELSE FieldFrom(b, key, i + 1, inside)

Field(b, key) == FieldFrom(b, key, 2, FALSE)

ParseError == [type |-> "jlexer.LexerError", msg |-> <<"parse error">>, cause |-> Nil]

\* rawReverseGeoResp.UnmarshalJSON(respBytes)
UnmarshalReverse(b) ==
    IF /\ Len(b) >= 2
       /\ b[1] = "{"
       /\ b[Len(b)] = "}"
       /\ \A i \in 1..Len(Field(b, QueryKey)) : Field(b, QueryKey)[i] \in NumberTokens
    THEN [err |-> Nil,
          Query |-> [i \in 1..Len(Field(b, QueryKey)) |-> ParseFloat(Field(b, QueryKey)[i])],
          Features |-> Field(b, FeaturesKey)]
    ELSE [err |-> Some(ParseError), Query |-> <<>>, Features |-> <<>>]

\* rawForwardGeoResp.UnmarshalJSON(respBytes)
UnmarshalForward(b) ==
    IF /\ Len(b) >= 2
       /\ b[1] = "{"
       /\ b[Len(b)] = "}"
    THEN [err |-> Nil, Query |-> Field(b, QueryKey), Features |-> Field(b, FeaturesKey)]
    ELSE [err |-> Some(ParseError), Query |-> <<>>, Features |-> <<>>]

\* Response headers: a function from the header names present to their values.
NoHeaders == [h \in {} |-> <<>>]
RateLimitHeaders ==
    [h \in {respHeaderRateLimitInterval, respHeaderRateLimitLimit, respHeaderRateLimitReset} |->
        IF h = respHeaderRateLimitInterval THEN <<"60">>
        ELSE IF h = respHeaderRateLimitLimit THEN <<"600">>
        ELSE <<"1577836800">>]

\* The headers of a response that tells the quota is used up.
ExhaustedHeaders ==
    [h \in {respHeaderRateLimitInterval, respHeaderRateLimitLimit, respHeaderRateLimitReset} |->
        IF h = respHeaderRateLimitInterval THEN <<"60">>
        ELSE IF h = respHeaderRateLimitLimit THEN <<"600">>
        ELSE <<"1577836860">>]

\* resp.Header.Peek(name): nil when the header is absent.
Peek(header, name) == IF name \in DOMAIN header THEN header[name] ELSE <<>>

readRespRateLimit(header) ==
    [Interval |-> Peek(header, respHeaderRateLimitInterval),
     Limit |-> Peek(header, respHeaderRateLimitLimit),
     Reset |-> Peek(header, respHeaderRateLimitReset)]

\* What one client.Do call does: the error it returns (nil on success) and what it
\* has stored in the response object by then.
TransportErrors ==
    {[type |-> "net.OpError", msg |-> <<"dial tcp: i/o timeout">>, cause |-> Nil],
     [type |-> "fasthttp.ErrNoFreeConns", msg |-> <<"no free connections">>, cause |-> Nil]}

AllTransportResults ==
    [err : {Nil}, status : {StatusOK}, body : Bodies, header : {RateLimitHeaders}]
        \cup [err : {Nil}, status : {429, 500},
              body : {Garbage, Document(TRUE, Ramp(2), FeatureList(1))},
              header : {NoHeaders}]
        \cup [err : {Some(e) : e \in TransportErrors}, status : {StatusOK, 429},
              body : {Garbage, Document(TRUE, Ramp(2), FeatureList(1))},
              header : {NoHeaders}]

\* One transport result for each way a call can end.
FewTransportResults ==
    {[err |-> Some(CHOOSE e \in TransportErrors : TRUE), status |-> StatusOK,
      body |-> <<>>, header |-> NoHeaders],
     [err |-> Nil, status |-> 429, body |-> Garbage, header |-> ExhaustedHeaders]}
        \cup [err : {Nil}, status : {StatusOK},
              body : {Garbage, Document(TRUE, Ramp(1), FeatureList(1)),
                      Document(TRUE, Ramp(2), FeatureList(1))},
              header : {RateLimitHeaders}]

-----------------------------------------------------------------------------
(* Errors and results. *)

\* errors.Errorf / errors.Wrapf: the formatted message and the wrapped error.
Errorf(msg) == [type |-> "errors.fundamental", msg |-> msg, cause |-> Nil]
Wrapf(e, msg) == [type |-> "errors.withStack", msg |-> msg, cause |-> Some(e)]

\* A StatusError whose message leaves the body out.
StatusError_noBody(reqURI, status, respBytes) ==
    Errorf(<<"failed to reverse geocode URI ">> \o reqURI \o <<" statusCode ">>
           \o Itoa(status))

StatusError(reqURI, status, respBytes) ==
    Errorf(<<"failed to reverse geocode URI ">> \o reqURI \o <<" statusCode ">>
           \o Itoa(status) \o <<" resp ">> \o respBytes)

UnmarshalError(e, respBytes) ==
    Wrapf(e, <<"failed to unmarshall raw reverse geocode resp ">> \o respBytes)

QueryLenError(respBytes) ==
    Errorf(<<"unexpected len of query coordinates in resp ">> \o respBytes)

Return(resp, err, exit) == [resp |-> resp, err |-> err, exit |-> exit]

\* A failure return that loses the error: return nil, nil.
Fail_nilError(e, exit) == Return(Nil, Nil, exit)

\* return nil, <error>
Fail(e, exit) == Return(Nil, Some(e), exit)

\* A transport failure returned wrapped in a new error.
TransportFailure_wrapped(err) ==
    Return(Nil, Some(Wrapf(err[1], <<"failed to do request">>)), "transport")

\* if err := c.client.Do(freq, fresp); err != nil { return nil, err }
TransportFailure(err) == Return(Nil, err, "transport")

\* A length check that accepts every query of at least two elements.
BadQueryLen_tooShort(query) == Len(query) < 2

\* len(respRaw.Query) != 2
BadQueryLen(query) == Len(query) # 2

\* An echoed point read latitude first.
ReverseQueryPoint_latFirst(query) == [Lon |-> query[2], Lat |-> query[1]]

\* ReverseQuery: GeoPoint{Lon: respRaw.Query[0], Lat: respRaw.Query[1]}
ReverseQueryPoint(query) == [Lon |-> query[1], Lat |-> query[2]]

\* A ReverseGeocode that parses the body before it looks at the status.
ReverseResult_parseFirst(reqURI, t) ==
    IF t.err # Nil THEN TransportFailure(t.err)
    ELSE LET respBytes == t.body
             respRaw == UnmarshalReverse(respBytes)
         IN  IF respRaw.err # Nil
             THEN Fail(UnmarshalError(respRaw.err[1], respBytes), "unmarshal")
             ELSE IF t.status # StatusOK
             THEN Fail(StatusError(reqURI, t.status, respBytes), "status")
             ELSE IF BadQueryLen(respRaw.Query)
             THEN Fail(QueryLenError(respBytes), "querylen")
             ELSE Return(Some([RateLimit |-> readRespRateLimit(t.header),
                               RawResp |-> respBytes,
                               ReverseQuery |-> ReverseQueryPoint(respRaw.Query),
                               ForwardQuery |-> <<>>,
                               Features |-> respRaw.Features]),
                         Nil, "success")

\* ReverseGeocode from the return of client.Do on: reqURI is what the buffer holds
\* when it is read, t what the transport did.
ReverseResult(reqURI, t) ==
    IF t.err # Nil THEN TransportFailure(t.err)
    ELSE LET respBytes == t.body
             respRaw == UnmarshalReverse(respBytes)
         IN  IF t.status # StatusOK
             THEN Fail(StatusError(reqURI, t.status, respBytes), "status")
             ELSE IF respRaw.err # Nil
             THEN Fail(UnmarshalError(respRaw.err[1], respBytes), "unmarshal")
             ELSE IF BadQueryLen(respRaw.Query)
             THEN Fail(QueryLenError(respBytes), "querylen")
             ELSE Return(Some([RateLimit |-> readRespRateLimit(t.header),
                               RawResp |-> respBytes,
                               ReverseQuery |-> ReverseQueryPoint(respRaw.Query),
                               ForwardQuery |-> <<>>,
                               Features |-> respRaw.Features]),
                         Nil, "success")

\* ForwardGeocode from the return of client.Do on.
ForwardResult(reqURI, t) ==
    IF t.err # Nil THEN TransportFailure(t.err)
    ELSE LET respBytes == t.body
             respRaw == UnmarshalForward(respBytes)
         IN  IF t.status # StatusOK
             THEN Fail(StatusError(reqURI, t.status, respBytes), "status")
             ELSE IF respRaw.err # Nil
             THEN Fail(UnmarshalError(respRaw.err[1], respBytes), "unmarshal")
             ELSE Return(Some([RateLimit |-> readRespRateLimit(t.header),
                               RawResp |-> respBytes,
                               ReverseQuery |-> [Lon |-> 0, Lat |-> 0],
                               ForwardQuery |-> respRaw.Query,
                               Features |-> respRaw.Features]),
                         Nil, "success")

-----------------------------------------------------------------------------
(* Logging. *)

\* A withLogger without the return after the resolver's logger.
withLogger_noReturn(c, ctx) ==
    (IF c.requestLogger # Nil THEN <<Resolve(c.requestLogger[1], ctx)>> ELSE <<>>)
        \o (IF c.logger # Nil THEN <<c.logger>> ELSE <<>>)

\* config.withLogger(ctx, do): the loggers do is called with, in order.
withLogger(c, ctx) ==
    IF c.requestLogger # Nil THEN <<Resolve(c.requestLogger[1], ctx)>>
    ELSE IF c.logger # Nil THEN <<c.logger>>
    ELSE <<>>

\* The Debugf calls the callbacks make: one per logger handed to do.
Debugf(loggers, msg) == [i \in 1..Len(loggers) |-> [logger |-> loggers[i][1], msg |-> msg]]

\* logger.Debugf on a nil Logger is a nil dereference.
Panics(loggers) == \E i \in 1..Len(loggers) : loggers[i] = Nil

RequestMessage(kind, uri) ==
    (IF kind = "reverse" THEN <<"mapbox_sdk: reverse geocode request ">>
     ELSE <<"mapbox_sdk: forward geocode request ">>) \o uri

ResponseMessage(kind, respBytes) ==
    (IF kind = "reverse" THEN <<"mapbox_sdk: reverse geocode response ">>
     ELSE <<"mapbox_sdk: forward geocode response ">>) \o respBytes

-----------------------------------------------------------------------------
(* The buffer pool. *)

Min(S) == CHOOSE x \in S : \A y \in S : x <= y

\* Buffers some call has acquired and not released.
Held == {calls[k].buf : k \in Callers} \ {0}

\* Identities no live buffer has: what sync.Pool's New can allocate.
Unused == BufIds \ (pool \cup Held)

\* pool.p.Get(): a buffer resting in the pool, or a new one made by New.
Gettable == pool \cup (IF Unused # {} THEN {Min(Unused)} ELSE {})

\* A Get that leaves the buffer it hands out in the pool.
PoolAfterGet_keeps(p, b) == p

\* The pool once Get has handed out b.
PoolAfterGet(p, b) == p \ {b}

\* A Reset that leaves the content in place.
Reset_keeps(content) == content

\* b.Reset()
Reset(content) == <<>>

\* The pool once Put has stored b.
PoolAfterPut(p, b) == p \cup {b}

\* A release written at the end of the function instead of deferred.
DeferredRelease_successOnly(exit) == exit = "success"

\* Whether the function's exit through this return (or panic) runs
\* releaseStringsBuilder: it is deferred, so every exit does.
DeferredRelease(exit) == TRUE

\* The fasthttp.Response objects calls in flight hold: AcquireResponse at entry,
\* the deferred ReleaseResponse at exit.
HeldResponses ==
    {calls[k].fresp : k \in {j \in Callers : calls[j].pc \in {"write", "encode", "send", "wait"}}}

UnusedResponses == RespIds \ (respPool \cup HeldResponses)

\* fasthttp.AcquireResponse(): an object resting in the pool, or a new one.
GettableResponses ==
    respPool \cup (IF UnusedResponses # {} THEN {Min(UnusedResponses)} ELSE {})

\* A RawResp that is fresp.Body() itself, not a copy of it.
RawRespAfterReuse_noCopy(raw, body) == {raw, body}

\* What the RawResp of a returned Response can hold once a later call's transport
\* has filled the response object the Response came from: respBytes is a slice
\* of the call's own (make), filled by copy, so it holds what it held.
RawRespAfterReuse(raw, body) == {raw}

\* What the RateLimit of a returned Response can hold once a later call's
\* transport has filled the response object the Response came from: the three
\* slices are the ones Peek returned, which lie in the header storage of the
\* object, so each holds what it held or what the later response stored there.
RateLimitAfterReuse(rl, header) ==
    {rl,
     [Interval |-> IF respHeaderRateLimitInterval \in DOMAIN header
                   THEN header[respHeaderRateLimitInterval] ELSE rl.Interval,
      Limit |-> IF respHeaderRateLimitLimit \in DOMAIN header
                THEN header[respHeaderRateLimitLimit] ELSE rl.Limit,
      Reset |-> IF respHeaderRateLimitReset \in DOMAIN header
                THEN header[respHeaderRateLimitReset] ELSE rl.Reset]}

\* What a call record can be once the transport of another call has filled
\* response object f with t: a Response returned from f is the only thing reached.
CallAfterReuse(call, f, t) ==
    IF call.pc = "done" /\ call.resp # Nil /\ call.fresp = f
    THEN {[call EXCEPT !.resp = Some([@[1] EXCEPT !.RateLimit = rl, !.RawResp = raw])] :
            rl \in RateLimitAfterReuse(call.resp[1].RateLimit, t.header),
            raw \in RawRespAfterReuse(call.resp[1].RawResp, t.body)}
    ELSE {call}

\* The records of all callers once caller k's transport has filled f with t and
\* caller k's own record has become mine.
CallsAfterDo(k, mine, f, t) ==
    {c \in [Callers -> {mine} \cup UNION {CallAfterReuse(calls[j], f, t) : j \in Callers \ {k}}] :
        /\ c[k] = mine
        /\ \A j \in Callers \ {k} : c[j] \in CallAfterReuse(calls[j], f, t)}

-----------------------------------------------------------------------------
(* The geocode calls. *)

IdleCall ==
    [pc |-> "idle", kind |-> "none", req |-> Nil, ctx |-> [logger |-> Nil],
     values |-> EmptyMap, order |-> <<>>, fresp |-> 0, buf |-> 0, acquired |-> 0,
     released |-> 0,
     sent |-> <<>>, doCount |-> 0, callbacks |-> <<>>, logged |-> <<>>,
     transport |-> Nil, resp |-> Nil, err |-> Nil, exit |-> "none"]

ValuesOf(kind, req) == IF kind = "reverse" THEN ReverseValues(req) ELSE ForwardValues(req)
HeadOf(kind, c, req) == IF kind = "reverse" THEN ReverseHead(c, req) ELSE ForwardHead(c, req)
ResultOf(kind, reqURI, t) ==
    IF kind = "reverse" THEN ReverseResult(reqURI, t) ELSE ForwardResult(reqURI, t)

\* Entry of a geocode call up to the acquisition of the buffer: a response object
\* is acquired (one of resps), the filter mapping is built and a buffer is taken
\* from the pool.
Start(k, kind, reqs, resps) ==
    /\ built
    /\ calls[k].pc = "idle"
    /\ \E req \in reqs, ctx \in Contexts, f \in resps, b \in Gettable :
           /\ calls' = [calls EXCEPT ![k] =
                  [IdleCall EXCEPT !.pc = "write", !.kind = kind, !.req = Some(req),
                                   !.ctx = ctx, !.values = ValuesOf(kind, req),
                                   !.fresp = f, !.buf = b, !.acquired = 1]]
           /\ respPool' = respPool \ {f}
           /\ pool' = PoolAfterGet(pool, b)
           /\ bufs' = IF b \in pool THEN bufs ELSE [bufs EXCEPT ![b] = <<>>]
    /\ UNCHANGED <<env, opts, built, geocoder>>

ReverseGeocodeStart(k, reqs, resps) == Start(k, "reverse", reqs, resps)
ForwardGeocodeStart(k, reqs, resps) == Start(k, "forward", reqs, resps)

\* Head writes that keep what they render in the receiver's geocodeAPIURL.
ReceiverAfterHead_stores(c, head) == [c EXCEPT !.geocodeAPIURL = head]

\* The receiver after the head writes: buf.Write(c.geocodeAPIURL) and
\* buf.Write(c.accessTokenGetValue) copy the fields into the buffer and assign
\* nothing to the receiver.
ReceiverAfterHead(c, head) == c

\* The writes of the base URL, the coordinates or search text, ".json" and the
\* access-token fragment.
WriteHead(k) ==
    /\ calls[k].pc = "write"
    /\ LET head == HeadOf(calls[k].kind, geocoder, calls[k].req[1])
       IN  /\ bufs' = [bufs EXCEPT ![calls[k].buf] = @ \o head]
           /\ geocoder' = ReceiverAfterHead(geocoder, head)
    /\ calls' = [calls EXCEPT ![k].pc = "encode"]
    /\ UNCHANGED <<env, opts, built, pool, respPool>>

\* encodeValues(buf, values)
EncodeValues(k) ==
    /\ calls[k].pc = "encode"
    /\ \E order \in Orders(DOMAIN calls[k].values) :
           /\ bufs' = [bufs EXCEPT ![calls[k].buf] =
                          encodeValues(@, calls[k].values, order, EmptyMap, <<>>)]
           /\ calls' = [calls EXCEPT ![k].pc = "send", ![k].order = order]
    /\ UNCHANGED <<env, opts, built, geocoder, pool, respPool>>

\* The deferred releaseStringsBuilder(buf) and ReleaseResponse(fresp) of caller
\* k, run on exit.
ReleaseOnExit(k, exit) ==
    /\ IF DeferredRelease(exit)
       THEN /\ bufs' = [bufs EXCEPT ![calls[k].buf] = Reset(@)]
            /\ pool' = PoolAfterPut(pool, calls[k].buf)
       ELSE UNCHANGED <<bufs, pool>>
    /\ respPool' = respPool \cup {calls[k].fresp}

Exited(call, pc, exit) ==
    [call EXCEPT !.pc = pc, !.exit = exit,
                 !.buf = IF DeferredRelease(exit) THEN 0 ELSE @,
                 !.released = IF DeferredRelease(exit) THEN @ + 1 ELSE @]

\* The request log line, then the request handed to client.Do, which copies the
\* URI; a nil logger makes the call panic, which runs the deferred release.
Send(k) ==
    /\ calls[k].pc = "send"
    /\ LET call == calls[k]
           reqURI == bufs[call.buf]
           loggers == withLogger(geocoder, call.ctx)
       IN  IF Panics(loggers)
           THEN /\ calls' = [calls EXCEPT ![k] =
                       Exited([call EXCEPT !.callbacks = loggers], "panicked", "panic")]
                /\ ReleaseOnExit(k, "panic")
           ELSE /\ calls' = [calls EXCEPT ![k] =
                       [call EXCEPT !.pc = "wait",
                                    !.callbacks = loggers,
                                    !.logged = Debugf(loggers, RequestMessage(call.kind, reqURI)),
                                    !.sent = reqURI,
                                    !.doCount = @ + 1]]
                /\ UNCHANGED <<bufs, pool, respPool>>
    /\ UNCHANGED <<env, opts, built, geocoder>>

\* client.Do fills the response object and returns, and the call runs to its
\* return.
Receive(k, results) ==
    /\ calls[k].pc = "wait"
    /\ \E t \in results :
           LET call == calls[k]
               reqURI == bufs[call.buf]
               loggers == IF t.err = Nil THEN withLogger(geocoder, call.ctx) ELSE <<>>
               r == ResultOf(call.kind, reqURI, t)
           IN  IF Panics(loggers)
               THEN /\ calls' \in CallsAfterDo(k,
                           Exited([call EXCEPT !.transport = Some(t)], "panicked", "panic"),
                           call.fresp, t)
                    /\ ReleaseOnExit(k, "panic")
               ELSE /\ calls' \in CallsAfterDo(k,
                           Exited([call EXCEPT !.transport = Some(t),
                                               !.logged = @ \o Debugf(loggers,
                                                   ResponseMessage(call.kind, t.body)),
                                               !.resp = r.resp,
                                               !.err = r.err],
                                  "done", r.exit),
                           call.fresp, t)
                    /\ ReleaseOnExit(k, r.exit)
    /\ UNCHANGED <<env, opts, built, geocoder>>

\* The caller drops the result; it may call again.
Forget(k) ==
    /\ calls[k].pc = "done"
    /\ calls' = [calls EXCEPT ![k] = IdleCall]
    /\ UNCHANGED <<env, opts, built, geocoder, bufs, pool, respPool>>

\* sync.Pool drops a resting buffer (a garbage collection).
PoolDrop ==
    /\ \E b \in pool :
           /\ pool' = pool \ {b}
           /\ bufs' = [bufs EXCEPT ![b] = <<>>]
    /\ UNCHANGED <<env, opts, built, geocoder, respPool, calls>>

-----------------------------------------------------------------------------
(* Specifications. *)

InitWith(envs) ==
    /\ env \in envs
    /\ opts = <<>>
    /\ built = FALSE
    /\ geocoder = WithURL(newConfig, <<"/geocoding/v5/">>)
    /\ bufs = [b \in BufIds |-> <<>>]
    /\ pool = {}
    /\ respPool = {}
    /\ calls = [k \in Callers |-> IdleCall]

\* Concurrent callers sharing one Geocoder.
Init == InitWith({Nil})

FewReverse == {ZeroReverse, [ZeroReverse EXCEPT !.Types = <<Poi>>, !.Country = <<"us">>]}

Next ==
    \/ NewFastHttpGeocoder({<<AccessToken(<<"tokA">>), RequestLogger(FromContext)>>})
    \/ \E k \in Callers : ReverseGeocodeStart(k, FewReverse, GettableResponses)
    \/ \E k \in Callers : ForwardGeocodeStart(k, {ZeroForward}, GettableResponses)
    \/ \E k \in Callers : WriteHead(k)
    \/ \E k \in Callers : EncodeValues(k)
    \/ \E k \in Callers : Send(k)
    \/ \E k \in Callers : Receive(k, FewTransportResults)
    \/ \E k \in Callers : Forget(k)
    \/ PoolDrop

Spec == Init /\ [][Next]_vars

\* One caller, every request and every transport result of the model. The caller
\* drops a result before it calls again, so which response object a call is
\* handed makes no difference here: it is handed the first one.
InitSeq == InitWith({Nil})

FirstResponse == {Min(GettableResponses)}

NextSeq ==
    \/ NewFastHttpGeocoder(LoggerOptionLists)
    \/ ReverseGeocodeStart(1, ReverseGeocodeRequests, FirstResponse)
    \/ ForwardGeocodeStart(1, ForwardGeocodeRequests, FirstResponse)
    \/ WriteHead(1)
    \/ EncodeValues(1)
    \/ Send(1)
    \/ Receive(1, AllTransportResults)
    \/ Forget(1)
    \/ PoolDrop

SpecSeq == InitSeq /\ [][NextSeq]_vars

\* Construction with every option of the model.
InitNew == InitWith(EnvValues)

NextNew ==
    \/ NewFastHttpGeocoder(SeqsUpTo(AllOptions, MaxOpts))

SpecNew == InitNew /\ [][NextNew]_vars

-----------------------------------------------------------------------------
(* Reading a rendered URI and an error message. *)

\* sub occurs in s as a run of consecutive elements.
Contains(s, sub) ==
    \E i \in 0..(Len(s) - Len(sub)) : SubSeq(s, i + 1, i + Len(sub)) = sub

EndsWith(s, suffix) ==
    /\ Len(s) >= Len(suffix)
    /\ SubSeq(s, Len(s) - Len(suffix) + 1, Len(s)) = suffix

StartsWith(s, prefix) ==
    /\ Len(s) >= Len(prefix)
    /\ SubSeq(s, 1, Len(prefix)) = prefix

\* The pieces of s between occurrences of sep.
RECURSIVE SplitOn(_, _)
SplitOn(s, sep) ==
    IF s = <<>> THEN << <<>> >>
    ELSE LET rest == SplitOn(Tail(s), sep)
         IN  IF Head(s) = sep THEN << <<>> >> \o rest
             ELSE << <<Head(s)>> \o rest[1] >> \o Tail(rest)

\* The query string of a URI: what follows its first "?".
QueryOf(uri) ==
    IF \E i \in 1..Len(uri) : uri[i] = questionMark
    THEN SubSeq(uri, 1 + Min({i \in 1..Len(uri) : uri[i] = questionMark}), Len(uri))
    ELSE <<>>

\* The parameters of the query string after the first one, each <<key, "=", value...>>.
Filters(uri) == Tail(SplitOn(QueryOf(uri), ampersandMark))

\* The values of the parameters named key, in the order they appear.
RECURSIVE ValuesIn(_, _)
ValuesIn(filters, key) ==
    IF filters = <<>> THEN <<>>
    ELSE (IF Len(Head(filters)) >= 2 /\ Head(filters)[1] = key /\ Head(filters)[2] = equalMark
          THEN <<SubSeq(Head(filters), 3, Len(Head(filters)))>> ELSE <<>>)
         \o ValuesIn(Tail(filters), key)

ValuesOfKey(uri, key) == ValuesIn(Filters(uri), key)

\* The URI of caller k once it is rendered: the buffer before the request is
\* handed over, the transport's copy after.
Rendered(k) == calls[k].pc \in {"send", "wait", "done"}
RenderedURI(k) == IF calls[k].pc = "send" THEN bufs[calls[k].buf] ELSE calls[k].sent

\* The URI the call of caller k renders into an empty buffer of its own.
RenderAlone(k) ==
    encodeValues(HeadOf(calls[k].kind, geocoder, calls[k].req[1]),
                 ValuesOf(calls[k].kind, calls[k].req[1]), calls[k].order, EmptyMap, <<>>)

InFlight(k) == calls[k].pc \in {"write", "encode", "send", "wait"}
Ended(k) == calls[k].pc \in {"done", "panicked"}
Returned(k) == calls[k].pc = "done"

-----------------------------------------------------------------------------
(* Properties. *)

\* C1: a call holds the buffer it acquired, unreleased, until it ends, and has
\* released it exactly once when it has ended, whichever way it ended (transport
\* failure, non-200 status, parse failure, wrong query length, success, panic);
\* when no call is in flight no buffer is held.
C1_ReleasedOnEveryExit ==
    /\ \A k \in Callers :
           /\ InFlight(k) => calls[k].acquired = 1 /\ calls[k].released = 0
                                 /\ calls[k].buf \in BufIds
           /\ Ended(k) => calls[k].acquired = 1 /\ calls[k].released = 1
                              /\ calls[k].buf = 0
    /\ (\A k \in Callers : ~InFlight(k)) => Held = {}

C1_Witness ==
    /\ calls[1].pc = "done" /\ calls[1].exit = "querylen" /\ calls[1].released = 1
    /\ calls[2].pc = "done" /\ calls[2].exit = "transport" /\ calls[2].released = 1
    /\ Held = {}

\* C2: two calls in flight never hold the same buffer, a held buffer does not rest
\* in the pool, and the URI a call hands to the transport is the URI that call
\* renders alone.
C2_ExclusiveBuffer ==
    /\ \A k, j \in Callers :
           k # j /\ InFlight(k) /\ InFlight(j) => calls[k].buf # calls[j].buf
    /\ \A k \in Callers : InFlight(k) => calls[k].buf \notin pool
    /\ \A k \in Callers : calls[k].pc \in {"wait", "done"} => calls[k].sent = RenderAlone(k)

C2_Witness ==
    /\ calls[1].pc = "wait" /\ calls[2].pc = "wait"
    /\ calls[1].kind = "reverse" /\ calls[2].kind = "forward"
    /\ calls[1].sent # calls[2].sent
    /\ calls[1].buf # calls[2].buf

\* C3: a call that has returned has returned either a Response and a nil error or
\* no Response and an error.
C3_ResponseXorError ==
    \A k \in Callers :
        Returned(k) => \/ calls[k].resp # Nil /\ calls[k].err = Nil
                       \/ calls[k].resp = Nil /\ calls[k].err # Nil

C3_Witness ==
    /\ Returned(1) /\ calls[1].exit = "unmarshal"
    /\ calls[1].resp = Nil /\ calls[1].err # Nil

\* C4: a call whose transport succeeded with a status other than 200 returns no
\* Response and an error whose message contains the URI sent, the status code and
\* the body.
C4_StatusError ==
    \A k \in Callers :
        (Returned(k) /\ calls[k].transport[1].err = Nil
            /\ calls[k].transport[1].status # StatusOK)
        => /\ calls[k].resp = Nil
           /\ calls[k].err # Nil
           /\ Contains(calls[k].err[1].msg, calls[k].sent)
           /\ Contains(calls[k].err[1].msg, Itoa(calls[k].transport[1].status))
           /\ Contains(calls[k].err[1].msg, calls[k].transport[1].body)

C4_Witness ==
    /\ Returned(1) /\ calls[1].kind = "forward"
    /\ calls[1].transport[1].err = Nil /\ calls[1].transport[1].status = 429
    /\ calls[1].transport[1].body = Garbage
    /\ calls[1].resp = Nil /\ calls[1].err # Nil
    /\ Contains(calls[1].err[1].msg, <<"429">>)

\* C5: a ReverseGeocode call on a 200 response that parses returns a Response only
\* if the parsed query has exactly 2 elements; with any other length it returns no
\* Response and an error whose message starts with "unexpected len of query
\* coordinates" and contains the body.
C5_QueryLength ==
    \A k \in Callers :
        (Returned(k) /\ calls[k].kind = "reverse" /\ calls[k].transport[1].err = Nil
            /\ calls[k].transport[1].status = StatusOK
            /\ UnmarshalReverse(calls[k].transport[1].body).err = Nil)
        => LET body == calls[k].transport[1].body
               n == Len(Field(body, QueryKey))
           IN  /\ n # 2 => /\ calls[k].resp = Nil
                           /\ calls[k].err # Nil
                           /\ StartsWith(calls[k].err[1].msg,
                                  <<"unexpected len of query coordinates in resp ">>)
                           /\ Contains(calls[k].err[1].msg, body)
               /\ n = 2 => calls[k].resp # Nil /\ calls[k].err = Nil

C5_Witness ==
    /\ Returned(1) /\ calls[1].kind = "reverse"
    /\ calls[1].transport[1].status = StatusOK
    /\ Len(Field(calls[1].transport[1].body, QueryKey)) = 3
    /\ calls[1].resp = Nil /\ calls[1].exit = "querylen"

\* C6: a call invokes the transport at most once, and exactly once if it waits for
\* the transport or has returned; if the transport failed the call has returned
\* the transport's own error and no Response, whatever status and body the
\* response object holds.
C6_TransportOnce ==
    \A k \in Callers :
        /\ calls[k].doCount <= 1
        /\ calls[k].pc \in {"wait", "done"} => calls[k].doCount = 1
        /\ (Returned(k) /\ calls[k].transport[1].err # Nil)
           => /\ calls[k].err = calls[k].transport[1].err
              /\ calls[k].resp = Nil
              /\ calls[k].exit = "transport"

C6_Witness ==
    /\ Returned(1) /\ calls[1].doCount = 1
    /\ calls[1].transport[1].err # Nil
    /\ calls[1].transport[1].status = 429
    /\ calls[1].err = calls[1].transport[1].err

ZeroOptional(k) ==
    \/ calls[k].kind = "reverse" /\ ReverseNonZero(calls[k].req[1]) = 0
    \/ calls[k].kind = "forward" /\ ForwardNonZero(calls[k].req[1]) = 0

\* C7 as claimed: the rendered URI of a request whose optional fields are all
\* zero ends with the access-token fragment.
C7_ZeroRequestEndsWithToken ==
    \A k \in Callers :
        Rendered(k) /\ ZeroOptional(k) =>
            EndsWith(RenderedURI(k), geocoder.accessTokenGetValue)

\* C7 amended: the rendered URI of a ReverseGeocode request whose optional fields
\* are all zero ends with the access-token fragment; that of such a ForwardGeocode
\* request has, after the fragment, exactly the three filter parameters
\* autocomplete=true, fuzzymatch=true and routing=false, in any order.
C7_ZeroRequestFilters ==
    \A k \in Callers :
        Rendered(k) /\ ZeroOptional(k) =>
            /\ calls[k].kind = "reverse" =>
                   /\ EndsWith(RenderedURI(k), geocoder.accessTokenGetValue)
                   /\ Filters(RenderedURI(k)) = <<>>
            /\ calls[k].kind = "forward" =>
                   /\ Len(Filters(RenderedURI(k))) = 3
                   /\ ValuesOfKey(RenderedURI(k), autocomplete) = <<trueStr>>
                   /\ ValuesOfKey(RenderedURI(k), fuzzymatch) = <<trueStr>>
                   /\ ValuesOfKey(RenderedURI(k), routing) = <<falseStr>>

C7_Witness ==
    /\ Rendered(1) /\ ZeroOptional(1) /\ calls[1].kind = "forward"
    /\ Len(Filters(RenderedURI(1))) = 3
    /\ ~EndsWith(RenderedURI(1), geocoder.accessTokenGetValue)

\* C8 as claimed: ReverseGeocode renders no types parameter for no types, one
\* &types=<t> for one type, and one &types=<t> per type, in order, for more.
C8_TypesMultiValued ==
    \A k \in Callers :
        Rendered(k) /\ calls[k].kind = "reverse" =>
            ValuesOfKey(RenderedURI(k), types) = calls[k].req[1].Types

\* C8 amended: ReverseGeocode renders no types parameter for no types and, for one
\* or more types, a single types parameter whose value is the types in the order
\* supplied, separated by commas.
C8_TypesCommaJoined ==
    \A k \in Callers :
        Rendered(k) /\ calls[k].kind = "reverse" =>
            LET ts == calls[k].req[1].Types
            IN  ValuesOfKey(RenderedURI(k), types) =
                    IF ts = <<>> THEN <<>> ELSE <<Join(ts, comma)>>

C8_Witness ==
    /\ Rendered(1) /\ calls[1].kind = "reverse"
    /\ calls[1].req[1].Types = <<Poi, Address>>
    /\ ValuesOfKey(RenderedURI(1), types) = << <<"poi", ",", "address">> >>

\* The static logger has received no Debugf call from caller k.
StaticSilent(k) ==
    \A i \in 1..Len(calls[k].logged) : calls[k].logged[i].logger # StaticLogger

\* C9: with a resolver configured withLogger has run the callback exactly once,
\* with the logger the resolver returns for the call's context, and the static
\* logger has not been called; with only a static logger it has run the callback
\* exactly once with that logger; with neither it has not run the callback.
C9_ResolverPrecedence ==
    \A k \in Callers :
        calls[k].pc \in {"wait", "done", "panicked"} =>
            /\ geocoder.requestLogger # Nil =>
                   /\ calls[k].callbacks = <<calls[k].ctx.logger>>
                   /\ StaticSilent(k)
            /\ (geocoder.requestLogger = Nil /\ geocoder.logger # Nil) =>
                   calls[k].callbacks = <<Some(StaticLogger)>>
            /\ (geocoder.requestLogger = Nil /\ geocoder.logger = Nil) =>
                   calls[k].callbacks = <<>> /\ calls[k].logged = <<>>

C9_Witness ==
    /\ calls[1].pc = "wait"
    /\ geocoder.requestLogger # Nil /\ geocoder.logger # Nil
    /\ calls[1].callbacks = <<Some(CtxLogger)>>
    /\ Len(calls[1].logged) = 1 /\ calls[1].logged[1].logger = CtxLogger

\* The token of the last AccessToken option of os, "" when there is none.
RECURSIVE LastAccessToken(_)
LastAccessToken(os) ==
    IF os = <<>> THEN <<>>
    ELSE IF os[Len(os)].option = "AccessToken" THEN os[Len(os)].arg
    ELSE LastAccessToken(SubSeq(os, 1, Len(os) - 1))

\* C10: once constructed, the access-token fragment is "?access_token=" followed
\* by the value of MAPBOX_ACCESS_TOKEN when it is set and not empty, and by the
\* token of the last AccessToken option otherwise ("" without such an option).
C10_AccessTokenFragment ==
    built =>
        geocoder.accessTokenGetValue =
            <<"?", "access_token", "=">>
                \o (IF env # Nil /\ env[1] # <<>> THEN env[1] ELSE LastAccessToken(opts))

C10_Witness ==
    /\ built
    /\ env = Some(<<"tokEnv">>)
    /\ LastAccessToken(opts) = <<"tokB">>
    /\ geocoder.accessTokenGetValue = <<"?", "access_token", "=", "tokEnv">>

\* The argument of the last option of os that sets the field named option, and
\* default when os has none.
RECURSIVE LastOf(_, _, _)
LastOf(os, option, default) ==
    IF os = <<>> THEN default
    ELSE IF os[Len(os)].option = option THEN os[Len(os)].arg
    ELSE LastOf(SubSeq(os, 1, Len(os) - 1), option, default)

\* C11: once constructed, every field an option can set holds the argument of the
\* last option given for it, whatever options for other fields stand before,
\* between or after, and its default when no option sets it (root
\* https://api.mapbox.com, endpoint mapbox.places); the geocode base URL is
\* root, "/geocoding/v5/", endpoint, "/" of these final values.
C11_OptionsInOrder ==
    built =>
        LET root == LastOf(opts, "RootAPI", <<"https://api.mapbox.com">>)
            endpoint == LastOf(opts, "GeocodeEndpoint", <<"mapbox.places">>)
        IN  /\ geocoder.rootAPI = root
            /\ geocoder.geocodeEndpoint = endpoint
            /\ geocoder.client = LastOf(opts, "HttpClient", "fasthttp.Client")
            /\ geocoder.logger = LastOf(opts, "Log", Nil)
            /\ geocoder.requestLogger = LastOf(opts, "RequestLogger", Nil)
            /\ geocoder.geocodeAPIURL = root \o <<"/geocoding/v5/">> \o endpoint \o <<"/">>

C11_Witness ==
    /\ built
    /\ opts = <<RootAPI(<<"http://localhost">>),
                GeocodeEndpoint(<<"mapbox.places-permanent">>),
                RootAPI(<<"http://127.0.0.1:8080">>)>>
    /\ geocoder.geocodeAPIURL =
           <<"http://127.0.0.1:8080", "/geocoding/v5/", "mapbox.places-permanent", "/">>

\* C12: once constructed, the Geocoder's base URL, access-token fragment and every
\* other configuration field equal the values construction computed from the
\* options and the environment, whatever calls have run, are running or have
\* ended, and however they ended.
C12_ConfigFrozen ==
    built => geocoder = Construct(opts, Getenv(env))

C12_Witness ==
    /\ calls[1].pc = "done" /\ calls[1].exit = "success"
    /\ calls[2].pc = "wait"
    /\ geocoder.geocodeAPIURL = <<"https://api.mapbox.com", "/geocoding/v5/", "mapbox.places", "/">>
    /\ geocoder.accessTokenGetValue = <<"?", "access_token", "=", "tokA">>

\* C13: a ReverseGeocode call that returned on a 200 response whose body parses to
\* a features array and a query of two elements has returned a Response whose
\* ReverseQuery has the first query element as Lon and the second as Lat, whose
\* Features are the parsed features in their order, and whose RawResp is the body
\* received.
C13_RoundTrip ==
    \A k \in Callers :
        (Returned(k) /\ calls[k].kind = "reverse" /\ calls[k].transport[1].err = Nil
            /\ calls[k].transport[1].status = StatusOK
            /\ UnmarshalReverse(calls[k].transport[1].body).err = Nil
            /\ Len(Field(calls[k].transport[1].body, QueryKey)) = 2)
        => LET body == calls[k].transport[1].body
               query == Field(body, QueryKey)
           IN  /\ calls[k].resp # Nil /\ calls[k].err = Nil
               /\ calls[k].resp[1].ReverseQuery.Lon = ParseFloat(query[1])
               /\ calls[k].resp[1].ReverseQuery.Lat = ParseFloat(query[2])
               /\ calls[k].resp[1].Features = Field(body, FeaturesKey)
               /\ calls[k].resp[1].RawResp = body

C13_Witness ==
    /\ Returned(1) /\ calls[1].kind = "reverse"
    /\ calls[1].transport[1].body =
           <<"{", TypeKey, "FeatureCollection", QueryKey, "-77.05", "38.889",
             FeaturesKey, "address.6707678235122794", "neighborhood.295198", "}">>
    /\ calls[1].resp # Nil
    /\ calls[1].resp[1].ReverseQuery = [Lon |-> -770500000, Lat |-> 388890000]
    /\ calls[1].resp[1].Features = <<"address.6707678235122794", "neighborhood.295198">>

\* What stands between the base URL and ".json" in the URI of caller k.
Subject(k) ==
    IF calls[k].kind = "reverse"
    THEN FormatFloat(calls[k].req[1].GeoPoint.Lon) \o <<",">>
             \o FormatFloat(calls[k].req[1].GeoPoint.Lat)
    ELSE calls[k].req[1].SearchText

\* C14: a rendered URI is the base URL, then <lon>,<lat> or the search text, then
\* ".json", then the access-token fragment, then the filters; the query string
\* starts with access_token=; what follows the fragment is, for every key of the
\* filter mapping exactly once and for nothing else, "&", the key, "=" and the
\* key's value.
C14_URIOrder ==
    \A k \in Callers :
        Rendered(k) =>
            LET uri == RenderedURI(k)
                head == geocoder.geocodeAPIURL \o Subject(k) \o <<".json">>
                            \o geocoder.accessTokenGetValue
                rest == SubSeq(uri, Len(head) + 1, Len(uri))
                params == SplitOn(rest, "&")
            IN  /\ StartsWith(uri, head)
                /\ StartsWith(QueryOf(uri), <<"access_token", "=">>)
                /\ params[1] = <<>>
                /\ Len(params) - 1 = Cardinality(DOMAIN calls[k].values)
                /\ \A i \in 2..Len(params) :
                       /\ Len(params[i]) >= 2
                       /\ params[i][1] \in DOMAIN calls[k].values
                       /\ params[i][2] = "="
                       /\ SubSeq(params[i], 3, Len(params[i])) = calls[k].values[params[i][1]]
                /\ \A i, j \in 2..Len(params) : i # j => params[i][1] # params[j][1]

C14_Witness ==
    /\ calls[1].pc = "wait" /\ calls[1].kind = "reverse"
    /\ geocoder.accessTokenGetValue = <<"?", "access_token", "=">>
    /\ calls[1].sent =
           <<"https://api.mapbox.com", "/geocoding/v5/", "mapbox.places", "/",
             "-77.050163", ",", "38.889223", ".json", "?", "access_token", "=",
             "&", "limit", "=", "5">>

\* The value ForwardGeocode is to send for a tri-state field.
Effective(p) == IF p = Nil THEN <<"true">> ELSE IF p[1] THEN <<"true">> ELSE <<"false">>

\* C15: the URI of a ForwardGeocode call carries autocomplete at most once and
\* fuzzymatch at most once, and the value of each is true when the request leaves
\* the field unset and the caller's value when it sets it.
C15_TriState ==
    \A k \in Callers :
        Rendered(k) /\ calls[k].kind = "forward" =>
            LET a == ValuesOfKey(RenderedURI(k), autocomplete)
                f == ValuesOfKey(RenderedURI(k), fuzzymatch)
            IN  /\ Len(a) <= 1
                /\ Len(f) <= 1
                /\ \A i \in 1..Len(a) : a[i] = Effective(calls[k].req[1].Autocomplete)
                /\ \A i \in 1..Len(f) : f[i] = Effective(calls[k].req[1].FuzzyMatch)

C15_Witness ==
    /\ Rendered(1) /\ calls[1].kind = "forward"
    /\ calls[1].req[1].Autocomplete = Some(FALSE)
    /\ calls[1].req[1].FuzzyMatch = Nil
    /\ ValuesOfKey(RenderedURI(1), autocomplete) = << <<"false">> >>
    /\ ValuesOfKey(RenderedURI(1), fuzzymatch) = << <<"true">> >>

\* The logger the configuration has for the call of caller k: the one the resolver
\* yields for the call's context when a resolver is set, the static one otherwise;
\* Nil when there is none.
LoggerFor(k) ==
    IF geocoder.requestLogger # Nil THEN calls[k].ctx.logger ELSE geocoder.logger

\* The log lines of caller k that carry the URI its call gave to the transport.
RequestLines(k) ==
    {i \in 1..Len(calls[k].logged) :
        calls[k].logged[i].msg = RequestMessage(calls[k].kind, calls[k].sent)}

\* C16: a call that is past its log step has invoked the transport once and has
\* not failed in the log step; with a logger for the call it has, from the moment
\* the transport is invoked, logged exactly one line carrying the URI given to
\* the transport; without one it has logged nothing.
C16_LoggedOnceBeforeTransport ==
    \A k \in Callers :
        calls[k].pc \in {"wait", "done", "panicked"} =>
            /\ calls[k].pc # "panicked"
            /\ calls[k].doCount = 1
            /\ LoggerFor(k) # Nil =>
                   /\ Cardinality(RequestLines(k)) = 1
                   /\ calls[k].logged[1].msg = RequestMessage(calls[k].kind, calls[k].sent)
            /\ LoggerFor(k) = Nil => calls[k].logged = <<>>

\* The error UnmarshalJSON returns for the body caller k received, Nil for none.
ParseErrorOf(k) ==
    IF calls[k].kind = "reverse"
    THEN UnmarshalReverse(calls[k].transport[1].body).err
    ELSE UnmarshalForward(calls[k].transport[1].body).err

\* C17: a call that returned has failed with the first of these that applies, and
\* succeeded if none does: the transport's error; for a status other than 200
\* the status error, which wraps nothing, whether the body parses or not; for a
\* body that does not parse the parse error, wrapping the parser's error and
\* carrying the body; for a reverse call, a query length other than 2.
C17_CheckOrder ==
    \A k \in Callers :
        Returned(k) =>
            LET t == calls[k].transport[1]
            IN  IF t.err # Nil
                THEN calls[k].exit = "transport" /\ calls[k].err = t.err
                ELSE IF t.status # StatusOK
                THEN /\ calls[k].exit = "status"
                     /\ StartsWith(calls[k].err[1].msg, <<"failed to reverse geocode URI ">>)
                     /\ calls[k].err[1].cause = Nil
                ELSE IF ParseErrorOf(k) # Nil
                THEN /\ calls[k].exit = "unmarshal"
                     /\ calls[k].err[1].cause = ParseErrorOf(k)
                     /\ StartsWith(calls[k].err[1].msg,
                            <<"failed to unmarshall raw reverse geocode resp ">>)
                     /\ Contains(calls[k].err[1].msg, t.body)
                ELSE IF calls[k].kind = "reverse" /\ Len(Field(t.body, QueryKey)) # 2
                THEN calls[k].exit = "querylen"
                ELSE calls[k].exit = "success" /\ calls[k].err = Nil

C17_Witness ==
    /\ Returned(1) /\ calls[1].kind = "reverse"
    /\ calls[1].transport[1].err = Nil
    /\ calls[1].transport[1].status = 429
    /\ calls[1].transport[1].body = Garbage
    /\ UnmarshalReverse(Garbage).err # Nil
    /\ calls[1].exit = "status"
    /\ calls[1].err[1].cause = Nil

\* C18: the RawResp of a Response a call has returned is the body that call
\* received, also once the response object the call used has been released and
\* another call has taken it and had it filled.
C18_RawRespOwned ==
    \A k \in Callers :
        Returned(k) /\ calls[k].resp # Nil =>
            calls[k].resp[1].RawResp = calls[k].transport[1].body

C18_Witness ==
    /\ Returned(1) /\ calls[1].resp # Nil
    /\ calls[2].pc = "done" /\ calls[2].fresp = calls[1].fresp
    /\ calls[2].transport[1].body = Garbage
    /\ calls[1].transport[1].body # Garbage
    /\ calls[1].resp[1].RawResp = calls[1].transport[1].body

\* C19: the RateLimit of a Response a call has returned holds the values of the
\* rate-limit headers of the response that call received, also once the response
\* object the call used has been released and another call has taken it and had
\* it filled.
C19_RateLimitOwned ==
    \A k \in Callers :
        Returned(k) /\ calls[k].resp # Nil =>
            calls[k].resp[1].RateLimit = readRespRateLimit(calls[k].transport[1].header)

\* C20: every buffer resting in the pool is empty, the buffer a call has just
\* acquired is empty, and every rendered URI begins with the geocode base URL.
C20_PooledBuffersEmpty ==
    /\ \A b \in pool : bufs[b] = <<>>
    /\ \A k \in Callers : calls[k].pc = "write" => bufs[calls[k].buf] = <<>>
    /\ \A k \in Callers : Rendered(k) => StartsWith(RenderedURI(k), geocoder.geocodeAPIURL)

C20_Witness ==
    /\ calls[2].pc = "done" /\ calls[2].exit = "status" /\ calls[2].sent # <<>>
    /\ pool # {}
    /\ \A b \in pool : bufs[b] = <<>>
    /\ calls[1].pc = "send"
    /\ StartsWith(bufs[calls[1].buf],
                  <<"https://api.mapbox.com", "/geocoding/v5/", "mapbox.places", "/">>)

\* C21: the URI of a ReverseGeocode call carries the parameter reverseMode, once
\* and with the value 1, when the request's ReverseMode is 1, and carries no
\* reverseMode parameter for any other ReverseMode, zero or not; and whatever the
\* ReverseMode, a call whose transport answered 200 with a body that parses and
\* holds a query of two elements returns a Response and no error.
C21_ReverseModeOne ==
    \A k \in Callers :
        calls[k].kind = "reverse" =>
            /\ Rendered(k) =>
                   ValuesOfKey(RenderedURI(k), reverseMode)
                       = IF calls[k].req[1].ReverseMode = 1 THEN <<oneStr>> ELSE <<>>
            /\ (Returned(k) /\ calls[k].transport[1].err = Nil
                   /\ calls[k].transport[1].status = StatusOK
                   /\ UnmarshalReverse(calls[k].transport[1].body).err = Nil
                   /\ Len(Field(calls[k].transport[1].body, QueryKey)) = 2)
               => calls[k].err = Nil /\ calls[k].resp # Nil

C21_Witness ==
    /\ Returned(1) /\ calls[1].kind = "reverse"
    /\ calls[1].req[1].ReverseMode = 2
    /\ ValuesOfKey(calls[1].sent, reverseMode) = <<>>
    /\ ~Contains(calls[1].sent, <<reverseMode>>)
    /\ calls[1].exit = "success" /\ calls[1].err = Nil

C21_WitnessOne ==
    /\ Rendered(1) /\ calls[1].kind = "reverse"
    /\ calls[1].req[1].ReverseMode = 1
    /\ ValuesOfKey(RenderedURI(1), reverseMode) = <<oneStr>>

\* C22: withLogger never runs its callback with a nil Logger, and no call ends in
\* the log step by calling Debugf on a nil Logger: with a resolver that yields no
\* logger for the call's context the log step is skipped.
C22_NoNilLogger ==
    \A k \in Callers :
        /\ \A i \in 1..Len(calls[k].callbacks) : calls[k].callbacks[i] # Nil
        /\ calls[k].pc # "panicked"

\* C3: every call that has ended, however it ended, has handed its caller either
\* a Response and a nil error or no Response and an error, never neither.
C3_EveryCallOneOutcome ==
    \A k \in Callers :
        Ended(k) => \/ calls[k].resp # Nil /\ calls[k].err = Nil
                    \/ calls[k].resp = Nil /\ calls[k].err # Nil

\* C6: every call that has ended, however it ended, has invoked the transport
\* exactly once.
C6_TransportOnceEveryCall ==
    \A k \in Callers : Ended(k) => calls[k].doCount = 1

====
